---- MODULE Spec2Model ----
(***************************************************************************)
(* State-machine model of fairing/kubernetes/manager.py: the two watch     *)
(* loops of KubeManager, get_service_external_endpoint and log, and the    *)
(* creation of custom resources, create_tf_job and create_kfserving.  A    *)
(* behaviour of Spec is one call of one method.                            *)
(*                                                                         *)
(* Python values are encoded as follows.  An attribute that may be None is *)
(* a tuple of length at most one: <<>> is None and <<v>> is the value v.   *)
(* A list is a sequence.  A str is a TLA+ string; a bytes object is a      *)
(* sequence of byte values; a decoded text is a sequence of code points.   *)
(***************************************************************************)
EXTENDS Integers, Sequences, FiniteSets, TLC

(* ---------------------------------------------------------------------- *)
(* Bounds of the model                                                     *)
(* ---------------------------------------------------------------------- *)
MaxEvents == 4

MaxIngress == 2

MaxChunks == 2

(* ---------------------------------------------------------------------- *)
(* Program constants                                                       *)
(* ---------------------------------------------------------------------- *)
MAX_STREAM_BYTES == 1024

(* ---------------------------------------------------------------------- *)
(* Optional values                                                         *)
(* ---------------------------------------------------------------------- *)
None == <<>>

Some(v) == <<v>>

Get(o) == o[1]

\* Python truth value of an optional str: None and '' are false.
Truthy(o) == o # None /\ Get(o) # ""

\* "{}".format(o) for an optional str.
Format(o) == IF o = None THEN "None" ELSE Get(o)

SeqsUpTo(S, n) == UNION {[1..k -> S] : k \in 0..n}

EventTypes == {"ADDED", "MODIFIED", "DELETED"}

\* The exceptions the event stream raises in the model: the two classes
\* the watch loops name in their except clauses.
StreamErrors == {"ValueError", "ApiException"}

\* except ValueError / except client.rest.ApiException
CaughtMut(err) == err = "ValueError"

Caught(err) == err \in {"ValueError", "ApiException"}

(* ---------------------------------------------------------------------- *)
(* Service snapshots                                                       *)
(* ---------------------------------------------------------------------- *)
IngressEntries ==
    [ip : {None, Some(""), Some("10.0.0.5")},
     hostname : {None, Some("lb.example.com")}]

\* svc.status.load_balancer.ingress: None, or a list of entries
IngressLists == {None} \cup {Some(l) : l \in SeqsUpTo(IngressEntries, MaxIngress)}

ServiceEvents == [type : EventTypes, ingress : IngressLists]

\* ing is not None and len(ing) > 0
IngressReady(ing) == ing # None /\ Len(Get(ing)) > 0

\* ing[0]
FirstIngress(ing) == Get(ing)[1]

\* ing[0].ip or ing[0].hostname
AddressMut(entry) == IF Truthy(entry.hostname) THEN entry.hostname ELSE entry.ip

Address(entry) == IF Truthy(entry.ip) THEN entry.ip ELSE entry.hostname

\* "http://{}:5000/predict".format(...)
Url(ing) == "http://" \o Format(Address(FirstIngress(ing))) \o ":5000/predict"

\* Where the service watch goes after one iteration: `return url` leaves
\* the function, otherwise the for loop pulls the next event.
SvcAfterEventMut(ready) == "watch"

SvcAfterEvent(ready) == IF ready THEN "returned" ELSE "watch"

VARIABLES
    svc_pc,        \* "idle", "watch", "returned", "raised"
    svc_event,     \* the last event pulled from the service watch (optional)
    svc_watches,   \* number of w.stream calls: watches opened
    svc_pulled,    \* number of service events pulled
    svc_empty,     \* number of those whose ingress was None or empty
    url,           \* return value of get_service_external_endpoint (optional)
    svc_returns,   \* number of times `return url` was executed
    svc_stream_end,\* how the service stream ended (optional): the exception
                   \* it raised, "StopIteration" when it was exhausted
    svc_logged     \* the logger.error record of the service watch (optional)

svc_vars == <<svc_pc, svc_event, svc_watches, svc_pulled, svc_empty, url,
              svc_returns, svc_stream_end, svc_logged>>

arg_name == "p1"

arg_namespace == "default"

SvcInit(pc) ==
    /\ svc_pc = pc
    /\ svc_event = None
    /\ svc_watches = (IF pc = "watch" THEN 1 ELSE 0)
    /\ svc_pulled = 0
    /\ svc_empty = 0
    /\ url = None
    /\ svc_returns = 0
    /\ svc_stream_end = None
    /\ svc_logged = None

\* One iteration of the for loop of get_service_external_endpoint.
SvcEvent(e) ==
    /\ svc_pc = "watch"
    /\ svc_pulled < MaxEvents
    /\ svc_event' = Some(e)
    /\ svc_pulled' = svc_pulled + 1
    /\ svc_empty' = IF e.ingress = None \/ Get(e.ingress) = <<>>
                    THEN svc_empty + 1 ELSE svc_empty
    /\ IF IngressReady(e.ingress)
       THEN /\ url' = Some(Url(e.ingress))
            /\ svc_returns' = svc_returns + 1
       ELSE UNCHANGED <<url, svc_returns>>
    /\ svc_pc' = SvcAfterEvent(IngressReady(e.ingress))
    /\ UNCHANGED <<svc_watches, svc_stream_end, svc_logged>>

\* Where get_service_external_endpoint goes after an except clause has
\* logged the error: the function ends, returning None; "watch" would be a
\* new w.stream call.
SvcAfterErrorMut(err) == "watch"

SvcAfterError(err) == "returned"

\* w.stream raises while the next event is pulled.
SvcStreamError(err) ==
    /\ svc_pc = "watch"
    /\ svc_stream_end' = Some(err)
    /\ IF Caught(err)
       THEN /\ svc_logged' = Some([name |-> arg_name, error |-> err])
            /\ svc_pc' = SvcAfterError(err)
       ELSE /\ svc_pc' = "raised"
            /\ UNCHANGED svc_logged
    /\ svc_watches' = IF svc_pc' = "watch" THEN svc_watches + 1 ELSE svc_watches
    /\ UNCHANGED <<svc_event, svc_pulled, svc_empty, url, svc_returns>>

\* w.stream is exhausted: the for loop ends and the function returns None.
SvcStreamEnd ==
    /\ svc_pc = "watch"
    /\ svc_pc' = "returned"
    /\ svc_stream_end' = Some("StopIteration")
    /\ UNCHANGED <<svc_event, svc_watches, svc_pulled, svc_empty, url,
                   svc_returns, svc_logged>>

(* ---------------------------------------------------------------------- *)
(* Pod snapshots                                                           *)
(* ---------------------------------------------------------------------- *)
PodNames == {"p1", "p2"}

Phases == {"Pending", "Running", "Succeeded", "Failed", "Unknown"}

Terminations ==
    {[reason |-> "OOMKilled", message |-> "out of memory"],
     [reason |-> "Error", message |-> "exit status 1"]}

\* container_statuses[i].state: of waiting, running and terminated the API
\* sets one; the attributes not set are None.
StateWaiting == [waiting |-> Some([reason |-> "CrashLoopBackOff"]), terminated |-> None]

StateRunning == [waiting |-> None, terminated |-> None]

StateTerminated(t) == [waiting |-> None, terminated |-> Some(t)]

ContainerStates ==
    {StateWaiting, StateRunning} \cup {StateTerminated(t) : t \in Terminations}

\* A ready container is a running one; a container that is not ready is in
\* any of the lifecycle states.
ContainerStatuses ==
    {[ready |-> TRUE, state |-> StateRunning]}
        \cup [ready : {FALSE}, state : ContainerStates]

\* pod.status.container_statuses: None, an empty list, or a list whose
\* first element is the status the code reads.
ContainerStatusLists ==
    {None, Some(<<>>)} \cup {Some(<<c>>) : c \in ContainerStatuses}

PodEvents ==
    [type : EventTypes, name : PodNames, phase : Phases,
     container_statuses : ContainerStatusLists]

\* Evaluating pod.status.container_statuses[0]: the exception it raises,
\* or "ok".
Subscript0(cs) ==
    IF cs = None THEN "TypeError"
    ELSE IF Get(cs) = <<>> THEN "IndexError"
    ELSE "ok"

Status0(cs) == Get(cs)[1]

\* pod.status.phase == 'Pending'
IsPending(e) == e.phase = "Pending"

\* (phase == 'Running' and container_statuses[0].ready) or phase == 'Succeeded'
\* The value is "true", "false", or the exception the evaluation raises.
EligibleCondMut(e) ==
    IF e.phase = "Running" \/ e.phase = "Succeeded" THEN "true" ELSE "false"

EligibleCond(e) ==
    IF e.phase = "Running"
    THEN IF Subscript0(e.container_statuses) # "ok"
         THEN Subscript0(e.container_statuses)
         ELSE IF Status0(e.container_statuses).ready THEN "true" ELSE "false"
    ELSE IF e.phase = "Succeeded" THEN "true" ELSE "false"

\* logger.info("Pod started running %s", container_statuses[0].ready)
EligibleLog(e) == Subscript0(e.container_statuses)

\* event['type'] == 'DELETED' or phase == 'Failed'
\*     or container_statuses[0].state.waiting
FailedCond(e) ==
    IF e.type = "DELETED" \/ e.phase = "Failed" THEN "true"
    ELSE IF Subscript0(e.container_statuses) # "ok"
         THEN Subscript0(e.container_statuses)
         ELSE IF Status0(e.container_statuses).state.waiting # None
              THEN "true" ELSE "false"

\* logger.error("Failed to launch %s, reason: %s, message: %s", ...):
\* the arguments read state.terminated.reason and state.terminated.message.
FailedLog(e) ==
    IF Subscript0(e.container_statuses) # "ok"
    THEN Subscript0(e.container_statuses)
    ELSE IF Status0(e.container_statuses).state.terminated = None
         THEN "AttributeError"
         ELSE "ok"

FailedDiagnostic(e) ==
    [name |-> e.name,
     reason |-> Get(Status0(e.container_statuses).state.terminated).reason,
     message |-> Get(Status0(e.container_statuses).state.terminated).message]

\* The outcome of one evaluation of the if/elif chain of log():
\*   branch: "pending", "eligible", "failed", "none" (no branch taken);
\*   raises: "ok" or the exception raised before the branch completes.
Evaluate(e) ==
    IF IsPending(e) THEN [branch |-> "pending", raises |-> "ok"]
    ELSE IF EligibleCond(e) \notin {"true", "false"}
         THEN [branch |-> "none", raises |-> EligibleCond(e)]
    ELSE IF EligibleCond(e) = "true"
         THEN [branch |-> "eligible", raises |-> EligibleLog(e)]
    ELSE IF FailedCond(e) \notin {"true", "false"}
         THEN [branch |-> "none", raises |-> FailedCond(e)]
    ELSE IF FailedCond(e) = "true"
         THEN [branch |-> "failed", raises |-> FailedLog(e)]
    ELSE [branch |-> "none", raises |-> "ok"]

(* ---------------------------------------------------------------------- *)
(* Log byte stream                                                         *)
(* ---------------------------------------------------------------------- *)
Whitespace == {9, 10, 11, 12, 13, 32}

\* The chunks tail.stream(MAX_STREAM_BYTES) yields in the model: non-empty,
\* at most MAX_STREAM_BYTES bytes each.  Text, text with trailing
\* whitespace, whitespace alone, a two-byte character (195 169 is U+00E9),
\* and the two halves of a character that a chunk boundary has split.
Chunks ==
    {c \in {<<97>>, <<97, 10>>, <<32, 97, 32, 10>>, <<10>>, <<195, 169>>,
             <<97, 195, 169, 10>>, <<97, 195>>, <<169, 10>>} :
        Len(c) > 0 /\ Len(c) <= MAX_STREAM_BYTES}

RECURSIVE Rstrip(_)
\* bytes.rstrip()
Rstrip(b) ==
    IF b = <<>> THEN b
    ELSE IF b[Len(b)] \in Whitespace THEN Rstrip(SubSeq(b, 1, Len(b) - 1))
    ELSE b

RECURSIVE Decodable(_)
\* whether bytes.decode('utf8') succeeds (one- and two-byte sequences)
Decodable(b) ==
    IF b = <<>> THEN TRUE
    ELSE IF b[1] < 128 THEN Decodable(Tail(b))
    ELSE IF b[1] >= 194 /\ b[1] < 224
         THEN /\ Len(b) >= 2
              /\ b[2] >= 128 /\ b[2] < 192
              /\ Decodable(SubSeq(b, 3, Len(b)))
    ELSE FALSE

RECURSIVE Decode(_)
\* bytes.decode('utf8') of a decodable value: the code points
Decode(b) ==
    IF b = <<>> THEN <<>>
    ELSE IF b[1] < 128 THEN <<b[1]>> \o Decode(Tail(b))
    ELSE <<(b[1] - 192) * 64 + (b[2] - 128)>> \o Decode(SubSeq(b, 3, Len(b)))

\* `if tail:` -- tail is '' until read_namespaced_pod_log has returned
TailTruthyMut(t) == TRUE

TailTruthy(t) == t # None

\* try: ... finally: tail.release_conn() -- the exits of the chunk loop on
\* which the connection is released
ReleaseOnExitMut(exit) == exit = "exhausted"

ReleaseOnExit(exit) == exit \in {"exhausted", "error"}

VARIABLES
    log_pc,        \* "idle", "watch", "after_watch" (at `if tail:`),
                   \* "stream", "done", "raised"
    follow,        \* argument follow
    container,     \* argument container
    event,         \* the event of the current iteration of the pod watch
                   \* (optional; None before the loop and after it)
    pulled,        \* number of pod events pulled
    waiting_seen,  \* number of those that were Pending, or Running with
                   \* container[0] not ready and in the running state
    seen_ftd,      \* a pulled event was DELETED, Failed or terminated
    state,         \* "WAITING", "LOG_ELIGIBLE", "FAILED": the branch taken
    tail,          \* the LogHandle (optional; None models '')
    calls,         \* number of read_namespaced_pod_log calls
    opens,         \* number of LogHandles obtained
    releases,      \* number of release_conn calls
    reads,         \* number of chunks read from the handle
    chunk,         \* the chunk of the current iteration of the chunk loop
                   \* (optional; None before the first read)
    printed,       \* the decoded chunks printed, in order
    diagnostic,    \* the "Failed to launch" record (optional)
    log_stream_end,\* how the pod stream ended (optional): the exception it
                   \* raised, "StopIteration" when it was exhausted
    log_logged,    \* the "error getting status" record (optional)
    raised         \* the exception that left log() (optional)

log_vars == <<log_pc, follow, container, event, pulled, waiting_seen, seen_ftd,
              state, tail, calls, opens, releases, reads, chunk, printed,
              diagnostic, log_stream_end, log_logged, raised>>

(* ---------------------------------------------------------------------- *)
(* Custom resources                                                        *)
(* ---------------------------------------------------------------------- *)
\* constants.TF_JOB_VERSION and constants.KFSERVING_VERSION: the values are
\* set outside this file, the model keeps them apart by name.
TF_JOB_VERSION == "<TF_JOB_VERSION>"

KFSERVING_VERSION == "<KFSERVING_VERSION>"

CustomKinds == {"create_tf_job", "create_kfserving"}

\* What create_namespaced_custom_object returns when the API accepts.
CreatedObjects == {[kind |-> "created", uid |-> "u1"], [kind |-> "created", uid |-> "u2"]}

\* The answer of an API that rejects the creation: ApiException is raised.
Rejection == [kind |-> "ApiException"]

\* except client.rest.ApiException: raise RuntimeError(...)
CreateFailureMut(method) == [class |-> "ApiException", message |-> "(404) Not Found"]

CreateFailure(method) ==
    IF method = "create_tf_job"
    THEN [class |-> "RuntimeError",
          message |-> "Failed to create TFJob. Perhaps the CRD TFJob version "
                        \o TF_JOB_VERSION \o " in not installed?"]
    ELSE [class |-> "RuntimeError",
          message |-> "Failed to create KFService. Perhaps the CRD KFServing version "
                        \o KFSERVING_VERSION \o " is not installed?"]

VARIABLES
    crd_pc,        \* "idle", "call", "returned", "raised"
    crd_method,    \* the method called: create_tf_job or create_kfserving
    crd_response,  \* what the API answered (optional): the created object,
                   \* or Rejection
    crd_result,    \* the value the method returned (optional)
    crd_raised     \* the exception that left the method (optional)

crd_vars == <<crd_pc, crd_method, crd_response, crd_result, crd_raised>>

CrdInit(pc) ==
    /\ crd_pc = pc
    /\ crd_method \in (IF pc = "idle" THEN {"create_tf_job"} ELSE CustomKinds)
    /\ crd_response = None
    /\ crd_result = None
    /\ crd_raised = None

\* create_namespaced_custom_object returns obj: the method returns it.
CreateAccepted(obj) ==
    /\ crd_pc = "call"
    /\ crd_response' = Some(obj)
    /\ crd_result' = Some(obj)
    /\ crd_pc' = "returned"
    /\ UNCHANGED <<crd_method, crd_raised>>

\* create_namespaced_custom_object raises ApiException.
CreateRejected ==
    /\ crd_pc = "call"
    /\ crd_response' = Some(Rejection)
    /\ crd_raised' = Some(CreateFailure(crd_method))
    /\ crd_pc' = "raised"
    /\ UNCHANGED <<crd_method, crd_result>>

(* ---------------------------------------------------------------------- *)
(* Event stream sources of two calls that run side by side                 *)
(* ---------------------------------------------------------------------- *)
\* What the cluster delivers to two calls that run at the same time: to the
\* service watch of get_service_external_endpoint, to the pod watch of
\* log(), whether the API accepts read_namespaced_pod_log, and the bytes
\* of the log.  events/chunks arrive in the order of the sequence; end is how
\* the stream ends after them: "StopIteration", or the exception raised.
SvcSources ==
    {[events |-> <<[type |-> "ADDED", ingress |-> None],
                   [type |-> "MODIFIED", ingress |-> Some(<<>>)],
                   [type |-> "MODIFIED",
                    ingress |-> Some(<<[ip |-> Some("10.0.0.5"), hostname |-> None]>>)]>>,
      end |-> "StopIteration"],
     [events |-> <<[type |-> "ADDED", ingress |-> None],
                   [type |-> "MODIFIED",
                    ingress |-> Some(<<[ip |-> None, hostname |-> Some("lb.example.com")]>>)]>>,
      end |-> "StopIteration"],
     [events |-> <<[type |-> "ADDED", ingress |-> None]>>, end |-> "ValueError"],
     [events |-> <<[type |-> "ADDED", ingress |-> Some(<<>>)],
                   [type |-> "DELETED", ingress |-> None]>>,
      end |-> "StopIteration"]}

PodSources ==
    {[events |-> <<[type |-> "ADDED", name |-> "p1", phase |-> "Pending",
                    container_statuses |-> None],
                   [type |-> "MODIFIED", name |-> "p1", phase |-> "Running",
                    container_statuses |-> Some(<<[ready |-> FALSE, state |-> StateRunning]>>)],
                   [type |-> "MODIFIED", name |-> "p1", phase |-> "Running",
                    container_statuses |-> Some(<<[ready |-> TRUE, state |-> StateRunning]>>)]>>,
      end |-> "StopIteration"],
     [events |-> <<[type |-> "ADDED", name |-> "p1", phase |-> "Pending",
                    container_statuses |-> None],
                   [type |-> "MODIFIED", name |-> "p2", phase |-> "Failed",
                    container_statuses |->
                        Some(<<[ready |-> FALSE,
                                state |-> StateTerminated([reason |-> "Error",
                                                           message |-> "exit status 1"])]>>)],
                   [type |-> "MODIFIED", name |-> "p1", phase |-> "Succeeded",
                    container_statuses |-> None]>>,
      end |-> "StopIteration"],
     [events |-> <<[type |-> "ADDED", name |-> "p1", phase |-> "Pending",
                    container_statuses |-> None]>>,
      end |-> "ApiException"],
     [events |-> <<[type |-> "ADDED", name |-> "p2", phase |-> "Pending",
                    container_statuses |-> None],
                   [type |-> "MODIFIED", name |-> "p2", phase |-> "Unknown",
                    container_statuses |-> None]>>,
      end |-> "StopIteration"],
     [events |-> <<[type |-> "ADDED", name |-> "p1", phase |-> "Pending",
                    container_statuses |-> None]>>,
      end |-> "StopIteration"]}

ByteSources ==
    {[chunks |-> <<<<97, 10>>, <<195, 169>>>>, end |-> "StopIteration"],
     [chunks |-> <<<<32, 97, 32, 10>>>>, end |-> "ProtocolError"],
     [chunks |-> <<<<97>>, <<97, 195>>>>, end |-> "StopIteration"]}

Sources ==
    [svc : SvcSources, pod : PodSources, accepted : BOOLEAN, bytes : ByteSources]

\* One call alone: its events are drawn as they are pulled (the \E of
\* Next), nothing is fixed beforehand.
NoSources ==
    [svc |-> [events |-> <<>>, end |-> "StopIteration"],
     pod |-> [events |-> <<>>, end |-> "StopIteration"],
     accepted |-> TRUE,
     bytes |-> [chunks |-> <<>>, end |-> "StopIteration"]]

VARIABLES
    sources        \* what the cluster delivers to the calls running side by
                   \* side; NoSources when one call runs alone

vars == <<svc_vars, log_vars, crd_vars, sources>>

\* The arguments of the calls of log() the model makes.
LogArgs ==
    {[follow |-> TRUE, container |-> ""],
     [follow |-> FALSE, container |-> "main"]}

LogInit(pc) ==
    /\ log_pc = pc
    /\ \E a \in LogArgs : follow = a.follow /\ container = a.container
    /\ event = None
    /\ pulled = 0
    /\ waiting_seen = 0
    /\ seen_ftd = FALSE
    /\ state = "WAITING"
    /\ tail = None
    /\ calls = 0
    /\ opens = 0
    /\ releases = 0
    /\ reads = 0
    /\ chunk = None
    /\ printed = <<>>
    /\ diagnostic = None
    /\ log_stream_end = None
    /\ log_logged = None
    /\ raised = None

\* Pending, or Running with container[0].ready false and running
WaitingShape(e) ==
    \/ e.phase = "Pending"
    \/ /\ e.phase = "Running"
       /\ Subscript0(e.container_statuses) = "ok"
       /\ ~Status0(e.container_statuses).ready
       /\ Status0(e.container_statuses).state = StateRunning

HasTerminated(e) ==
    /\ Subscript0(e.container_statuses) = "ok"
    /\ Status0(e.container_statuses).state.terminated # None

HasWaiting(e) ==
    /\ Subscript0(e.container_statuses) = "ok"
    /\ Status0(e.container_statuses).state.waiting # None

RunningReady(e) ==
    /\ e.phase = "Running"
    /\ Subscript0(e.container_statuses) = "ok"
    /\ Status0(e.container_statuses).ready

\* v1.read_namespaced_pod_log(pod.metadata.name, namespace, follow=follow,
\*     _preload_content=False, pretty='pretty', container=container)
LogHandleMut(e) ==
    [name |-> e.name, namespace |-> arg_namespace, follow |-> TRUE,
     container |-> ""]

LogHandle(e) ==
    [name |-> e.name, namespace |-> arg_namespace, follow |-> follow,
     container |-> container]

\* The part of one loop iteration every branch shares: the event is pulled.
Pull(e) ==
    /\ log_pc = "watch"
    /\ pulled < MaxEvents
    /\ event' = Some(e)
    /\ pulled' = pulled + 1
    /\ waiting_seen' = IF WaitingShape(e) THEN waiting_seen + 1 ELSE waiting_seen
    /\ seen_ftd' = (seen_ftd \/ e.type = "DELETED" \/ e.phase = "Failed"
                      \/ HasTerminated(e))

\* Where log() goes after the read_namespaced_pod_log call of a branch:
\* `break` when the call returns, the ApiException handler when the API
\* rejects it; both leave the watch loop.
AfterOpenLogMut(accepted) == IF accepted THEN "watch" ELSE "after_watch"

AfterOpenLog(accepted) == "after_watch"

\* The read_namespaced_pod_log call of a branch and what follows it: the
\* break when it returns a handle, the ApiException handler when the API
\* rejects it.
OpenLog(e, accepted) ==
    /\ calls' = calls + 1
    /\ IF accepted
       THEN /\ tail' = Some(LogHandle(e))
            /\ opens' = opens + 1
            /\ UNCHANGED log_logged
       ELSE /\ log_logged' = Some([name |-> arg_name, error |-> "ApiException"])
            /\ UNCHANGED <<tail, opens>>
    /\ log_pc' = AfterOpenLog(accepted)
    /\ UNCHANGED raised

\* One iteration of the for loop of log(): the event e is pulled and the
\* if/elif chain is evaluated; accepted tells whether the API accepts the
\* read_namespaced_pod_log call, when the iteration makes one.
LogEvent(e, accepted) ==
    /\ Pull(e)
    /\ LET r == Evaluate(e) IN
         /\ state' = IF r.branch = "eligible" THEN "LOG_ELIGIBLE"
                     ELSE IF r.branch = "failed" THEN "FAILED"
                     ELSE state
         /\ IF r.raises # "ok"
            THEN /\ raised' = Some(r.raises)
                 /\ log_pc' = "raised"
                 /\ UNCHANGED <<tail, calls, opens, log_logged, diagnostic>>
            ELSE IF r.branch = "eligible"
            THEN /\ OpenLog(e, accepted)
                 /\ UNCHANGED diagnostic
            ELSE IF r.branch = "failed"
            THEN /\ diagnostic' = Some(FailedDiagnostic(e))
                 /\ OpenLog(e, accepted)
            ELSE /\ accepted
                 /\ UNCHANGED <<log_pc, tail, calls, opens, log_logged,
                                diagnostic, raised>>
    /\ UNCHANGED <<follow, container, releases, reads, chunk, printed,
                   log_stream_end>>

\* w.stream raises while the next pod event is pulled.
LogStreamError(err) ==
    /\ log_pc = "watch"
    /\ log_stream_end' = Some(err)
    /\ IF Caught(err)
       THEN /\ log_logged' = Some([name |-> arg_name, error |-> err])
            /\ log_pc' = "after_watch"
            /\ UNCHANGED raised
       ELSE /\ raised' = Some(err)
            /\ log_pc' = "raised"
            /\ UNCHANGED log_logged
    /\ UNCHANGED <<follow, container, event, pulled, waiting_seen, seen_ftd,
                   state, tail, calls, opens, releases, reads, chunk, printed,
                   diagnostic>>

\* w.stream is exhausted: the for loop ends without a break.
LogStreamEnd ==
    /\ log_pc = "watch"
    /\ log_pc' = "after_watch"
    /\ log_stream_end' = Some("StopIteration")
    /\ UNCHANGED <<follow, container, event, pulled, waiting_seen, seen_ftd,
                   state, tail, calls, opens, releases, reads, chunk, printed,
                   diagnostic, log_logged, raised>>

\* `if tail:` after the watch loop; the loop variables are not read again.
LogAfterWatch ==
    /\ log_pc = "after_watch"
    /\ log_pc' = IF TailTruthy(tail) THEN "stream" ELSE "done"
    /\ event' = None
    /\ UNCHANGED <<follow, container, pulled, waiting_seen, seen_ftd,
                   state, tail, calls, opens, releases, reads, chunk, printed,
                   diagnostic, log_stream_end, log_logged, raised>>

\* print(...): the text is written to the output, after what was written
\* before.
RelayMut(out, text) == <<text>> \o out

Relay(out, text) == Append(out, text)

\* One iteration of `for chunk in tail.stream(MAX_STREAM_BYTES)`: the chunk
\* is read, stripped, decoded and printed; a chunk that is not valid UTF-8
\* raises UnicodeDecodeError through the finally clause.
LogChunk(c) ==
    /\ log_pc = "stream"
    /\ reads < MaxChunks
    /\ reads' = reads + 1
    /\ chunk' = Some(c)
    /\ IF Decodable(Rstrip(c))
       THEN /\ printed' = Relay(printed, Decode(Rstrip(c)))
            /\ UNCHANGED <<log_pc, releases, raised>>
       ELSE /\ raised' = Some("UnicodeDecodeError")
            /\ releases' = IF ReleaseOnExit("error") THEN releases + 1 ELSE releases
            /\ log_pc' = "raised"
            /\ UNCHANGED printed
    /\ UNCHANGED <<follow, container, event, pulled, waiting_seen, seen_ftd,
                   state, tail, calls, opens, diagnostic, log_stream_end,
                   log_logged>>

\* ProtocolError: reading the next chunk fails; KeyboardInterrupt: the
\* consumer of the printed text stops the call.
ChunkLoopErrors == {"ProtocolError", "KeyboardInterrupt"}

\* The chunk loop is left by an exception that is not a decoding error:
\* the read of the next chunk fails, or the consumer of the printed text
\* stops (print raises, the caller interrupts).
LogChunkAbort(err) ==
    /\ log_pc = "stream"
    /\ raised' = Some(err)
    /\ releases' = IF ReleaseOnExit("error") THEN releases + 1 ELSE releases
    /\ log_pc' = "raised"
    /\ UNCHANGED <<follow, container, event, pulled, waiting_seen, seen_ftd,
                   state, tail, calls, opens, reads, chunk, printed,
                   diagnostic, log_stream_end, log_logged>>

\* tail.stream is exhausted: the chunk loop ends, the finally clause runs.
LogChunksEnd ==
    /\ log_pc = "stream"
    /\ releases' = IF ReleaseOnExit("exhausted") THEN releases + 1 ELSE releases
    /\ log_pc' = "done"
    /\ UNCHANGED <<follow, container, event, pulled, waiting_seen, seen_ftd,
                   state, tail, calls, opens, reads, chunk, printed,
                   diagnostic, log_stream_end, log_logged, raised>>

(* ---------------------------------------------------------------------- *)
(* One call of a KubeManager method                                        *)
(* ---------------------------------------------------------------------- *)
Init ==
    /\ \/ SvcInit("watch") /\ LogInit("idle") /\ CrdInit("idle")
       \/ SvcInit("idle") /\ LogInit("watch") /\ CrdInit("idle")
       \/ SvcInit("idle") /\ LogInit("idle") /\ CrdInit("call")
    /\ sources = NoSources

\* The steps of get_service_external_endpoint, those of log, those of the
\* creation of a custom resource.
Next ==
    \/ (\E e \in ServiceEvents : SvcEvent(e)) /\ UNCHANGED <<log_vars, crd_vars, sources>>
    \/ (\E err \in StreamErrors : SvcStreamError(err)) /\ UNCHANGED <<log_vars, crd_vars, sources>>
    \/ SvcStreamEnd /\ UNCHANGED <<log_vars, crd_vars, sources>>
    \/ (\E e \in PodEvents, accepted \in BOOLEAN : LogEvent(e, accepted))
          /\ UNCHANGED <<svc_vars, crd_vars, sources>>
    \/ (\E err \in StreamErrors : LogStreamError(err)) /\ UNCHANGED <<svc_vars, crd_vars, sources>>
    \/ LogStreamEnd /\ UNCHANGED <<svc_vars, crd_vars, sources>>
    \/ LogAfterWatch /\ UNCHANGED <<svc_vars, crd_vars, sources>>
    \/ (\E c \in Chunks : LogChunk(c)) /\ UNCHANGED <<svc_vars, crd_vars, sources>>
    \/ (\E err \in ChunkLoopErrors : LogChunkAbort(err)) /\ UNCHANGED <<svc_vars, crd_vars, sources>>
    \/ LogChunksEnd /\ UNCHANGED <<svc_vars, crd_vars, sources>>
    \/ (\E obj \in CreatedObjects : CreateAccepted(obj))
          /\ UNCHANGED <<svc_vars, log_vars, sources>>
    \/ CreateRejected /\ UNCHANGED <<svc_vars, log_vars, sources>>

Spec == Init /\ [][Next]_vars

\* A call of log() under the assumptions of its termination: the pod event
\* stream does not stay silent for ever (it ends, when it neither delivers
\* a triggering snapshot nor fails), the interpreter goes on from the watch
\* loop to `if tail:`, and the log byte stream ends.
SpecLive ==
    /\ Spec
    /\ WF_vars(LogStreamEnd /\ UNCHANGED <<svc_vars, crd_vars, sources>>)
    /\ WF_vars(LogAfterWatch /\ UNCHANGED <<svc_vars, crd_vars, sources>>)
    /\ WF_vars(LogChunksEnd /\ UNCHANGED <<svc_vars, crd_vars, sources>>)

(* ---------------------------------------------------------------------- *)
(* get_service_external_endpoint and log() side by side                    *)
(* ---------------------------------------------------------------------- *)
\* w = watch.Watch() in get_service_external_endpoint: the watch of the
\* call, with its own position in its own stream.
SvcCursor == svc_pulled

\* w = watch.Watch() in log(): a local of the call.  One Watch object held
\* by both calls would advance with the pulls of either.
PodCursorMut == pulled + svc_pulled

PodCursor == pulled

\* tail.stream(MAX_STREAM_BYTES): the position in the bytes of the handle
ChunkCursor == reads

\* Whether the iteration of log() on e calls read_namespaced_pod_log.
CallsReadLog(e) ==
    Evaluate(e).raises = "ok" /\ Evaluate(e).branch \in {"eligible", "failed"}

ConcSvcEvent ==
    /\ SvcCursor < Len(sources.svc.events)
    /\ SvcEvent(sources.svc.events[SvcCursor + 1])
    /\ UNCHANGED <<log_vars, crd_vars, sources>>

ConcSvcStreamError ==
    /\ SvcCursor >= Len(sources.svc.events)
    /\ sources.svc.end # "StopIteration"
    /\ SvcStreamError(sources.svc.end)
    /\ UNCHANGED <<log_vars, crd_vars, sources>>

ConcSvcStreamEnd ==
    /\ SvcCursor >= Len(sources.svc.events)
    /\ sources.svc.end = "StopIteration"
    /\ SvcStreamEnd
    /\ UNCHANGED <<log_vars, crd_vars, sources>>

ConcLogEvent ==
    /\ PodCursor < Len(sources.pod.events)
    /\ LET e == sources.pod.events[PodCursor + 1] IN
         LogEvent(e, IF CallsReadLog(e) THEN sources.accepted ELSE TRUE)
    /\ UNCHANGED <<svc_vars, crd_vars, sources>>

ConcLogStreamError ==
    /\ PodCursor >= Len(sources.pod.events)
    /\ sources.pod.end # "StopIteration"
    /\ LogStreamError(sources.pod.end)
    /\ UNCHANGED <<svc_vars, crd_vars, sources>>

ConcLogStreamEnd ==
    /\ PodCursor >= Len(sources.pod.events)
    /\ sources.pod.end = "StopIteration"
    /\ LogStreamEnd
    /\ UNCHANGED <<svc_vars, crd_vars, sources>>

ConcLogAfterWatch ==
    /\ LogAfterWatch
    /\ UNCHANGED <<svc_vars, crd_vars, sources>>

ConcLogChunk ==
    /\ ChunkCursor < Len(sources.bytes.chunks)
    /\ LogChunk(sources.bytes.chunks[ChunkCursor + 1])
    /\ UNCHANGED <<svc_vars, crd_vars, sources>>

ConcLogChunkAbort ==
    /\ ChunkCursor >= Len(sources.bytes.chunks)
    /\ sources.bytes.end # "StopIteration"
    /\ LogChunkAbort(sources.bytes.end)
    /\ UNCHANGED <<svc_vars, crd_vars, sources>>

ConcLogChunksEnd ==
    /\ ChunkCursor >= Len(sources.bytes.chunks)
    /\ sources.bytes.end = "StopIteration"
    /\ LogChunksEnd
    /\ UNCHANGED <<svc_vars, crd_vars, sources>>

\* Both calls have been made, on the streams the cluster will deliver.
InitConc ==
    /\ SvcInit("watch")
    /\ LogInit("watch")
    /\ CrdInit("idle")
    /\ sources \in Sources

\* Any interleaving of the steps of the two calls.
NextConc ==
    \/ ConcSvcEvent
    \/ ConcSvcStreamError
    \/ ConcSvcStreamEnd
    \/ ConcLogEvent
    \/ ConcLogStreamError
    \/ ConcLogStreamEnd
    \/ ConcLogAfterWatch
    \/ ConcLogChunk
    \/ ConcLogChunkAbort
    \/ ConcLogChunksEnd

SpecConc == InitConc /\ [][NextConc]_vars

RECURSIVE SvcRun(_, _)
\* get_service_external_endpoint alone on a stream: what it returns and
\* how it ends.
SvcRun(events, end) ==
    IF events = <<>>
    THEN [url |-> None,
          pc |-> IF end = "StopIteration" THEN "returned"
                 ELSE IF Caught(end) THEN SvcAfterError(end) ELSE "raised"]
    ELSE IF IngressReady(Head(events).ingress)
         THEN [url |-> Some(Url(Head(events).ingress)), pc |-> "returned"]
         ELSE SvcRun(Tail(events), end)

RECURSIVE WatchRun(_, _, _)
\* The watch loop of log() alone on a stream: the value of tail after the
\* loop and the exception that left it.
WatchRun(events, end, accepted) ==
    IF events = <<>>
    THEN [tail |-> None,
          raised |-> IF end = "StopIteration" \/ Caught(end) THEN None ELSE Some(end)]
    ELSE IF Evaluate(Head(events)).raises # "ok"
         THEN [tail |-> None, raised |-> Some(Evaluate(Head(events)).raises)]
    ELSE IF CallsReadLog(Head(events))
         THEN [tail |-> IF accepted THEN Some(LogHandle(Head(events))) ELSE None,
               raised |-> None]
    ELSE WatchRun(Tail(events), end, accepted)

RECURSIVE ChunkRun(_, _, _)
\* The chunk loop of log() alone on the bytes of a handle: the lines
\* printed, the releases of the handle, the exception that left the loop.
ChunkRun(chunks, end, out) ==
    IF chunks = <<>>
    THEN IF end = "StopIteration"
         THEN [printed |-> out,
               releases |-> IF ReleaseOnExit("exhausted") THEN 1 ELSE 0,
               raised |-> None]
         ELSE [printed |-> out,
               releases |-> IF ReleaseOnExit("error") THEN 1 ELSE 0,
               raised |-> Some(end)]
    ELSE IF Decodable(Rstrip(Head(chunks)))
         THEN ChunkRun(Tail(chunks), end, Relay(out, Decode(Rstrip(Head(chunks)))))
         ELSE [printed |-> out,
               releases |-> IF ReleaseOnExit("error") THEN 1 ELSE 0,
               raised |-> Some("UnicodeDecodeError")]

\* log() alone on a pod stream and the bytes of the handle it obtains.
LogRun(src) ==
    LET w == WatchRun(src.pod.events, src.pod.end, src.accepted) IN
      IF w.raised # None \/ ~TailTruthy(w.tail)
      THEN [tail |-> None, opens |-> 0, releases |-> 0, printed |-> <<>>,
            raised |-> w.raised]
      ELSE LET c == ChunkRun(src.bytes.chunks, src.bytes.end, <<>>) IN
             [tail |-> w.tail, opens |-> 1, releases |-> c.releases,
              printed |-> c.printed, raised |-> c.raised]

(* ---------------------------------------------------------------------- *)
(* Properties of get_service_external_endpoint                             *)
(* ---------------------------------------------------------------------- *)
UrlPrefix == "http://"

UrlSuffix == ":5000/predict"

\* C1: get_service_external_endpoint returns no URL while every snapshot
\* pulled so far has an absent or empty ingress list; the first snapshot
\* with a non-empty ingress list makes it return a URL, once, and it is the
\* last event the call pulls.
C1_ResolvesAtFirstIngress ==
    svc_pc # "idle" =>
        /\ svc_pulled = svc_empty => url = None /\ svc_returns = 0
        /\ svc_pulled # svc_empty =>
              /\ url # None
              /\ svc_returns = 1
              /\ svc_pc = "returned"
              /\ svc_pulled = svc_empty + 1
              /\ Get(svc_event).ingress # None
              /\ Get(Get(svc_event).ingress) # <<>>

\* Two snapshots without ingress, then one with: the URL is returned at the
\* third event.
C1_Witness ==
    /\ svc_pc = "returned"
    /\ svc_pulled = 3
    /\ svc_empty = 2
    /\ url # None

\* C2: a returned URL is "http://<address>:5000/predict", the address being
\* the IP of the first ingress entry of the resolving snapshot when that
\* entry has one (not None, not ''), and its hostname otherwise (an absent
\* hostname is formatted as "None").
C2_UrlFromFirstIngress ==
    url # None =>
        LET first == Get(Get(svc_event).ingress)[1] IN
          /\ (first.ip # None /\ first.ip # Some(""))
                => Get(url) = UrlPrefix \o Get(first.ip) \o UrlSuffix
          /\ (first.ip \in {None, Some("")} /\ first.hostname # None)
                => Get(url) = UrlPrefix \o Get(first.hostname) \o UrlSuffix
          /\ (first.ip \in {None, Some("")} /\ first.hostname = None)
                => Get(url) = UrlPrefix \o "None" \o UrlSuffix

\* The first entry has no IP and a hostname, the second entry has an IP,
\* and an earlier snapshot had no ingress: the URL names the hostname.
C2_Witness ==
    /\ url = Some("http://lb.example.com:5000/predict")
    /\ svc_pulled = 2
    /\ Len(Get(Get(svc_event).ingress)) = 2
    /\ Get(Get(svc_event).ingress)[1].ip = None
    /\ Get(Get(svc_event).ingress)[2].ip = Some("10.0.0.5")

\* C15 as claimed: when the service event stream fails, the call returns
\* a value that carries the class of the error, and the watch was opened
\* once.
C15_ReturnsClassifiedError ==
    (svc_stream_end # None /\ Get(svc_stream_end) \in StreamErrors)
        => /\ svc_pc = "returned"
           /\ url # None
           /\ svc_watches = 1

\* C15 as amended: when the service event stream fails, the call logs the
\* class of the error with the name argument and returns None, without a
\* retry: a call opens its watch once and never again.
C15_NoRetryOnStreamFailure ==
    /\ svc_pc # "idle" => svc_watches = 1
    /\ (svc_stream_end # None /\ Get(svc_stream_end) \in StreamErrors)
          => /\ svc_pc = "returned"
             /\ url = None
             /\ svc_returns = 0
             /\ svc_logged # None
             /\ Get(svc_logged).error = Get(svc_stream_end)

\* The stream fails with ValueError after one snapshot without ingress.
C15_Witness ==
    /\ svc_stream_end = Some("ValueError")
    /\ svc_pulled = 1
    /\ svc_pc = "returned"
    /\ svc_watches = 1

(* ---------------------------------------------------------------------- *)
(* Properties of log                                                       *)
(* ---------------------------------------------------------------------- *)
\* The pod watch loop has been left, by break, by a handled exception, by
\* the end of the stream or by an exception that leaves log().
WatchLeft == log_pc \in {"after_watch", "stream", "done", "raised"}

\* The event of the current iteration has been evaluated.
Evaluated == event # None /\ log_pc \in {"watch", "after_watch", "raised"}

\* C3: on every pod event sequence that reaches a snapshot with
\* phase=Running and container[0].ready=true before any Failed, terminated
\* or DELETED event, log() goes to LOG_ELIGIBLE and makes exactly one
\* read_namespaced_pod_log call, never a second one.  The events are
\* evaluated in order, so a run whose events so far hold no Failed,
\* terminated or DELETED event, and whose stream neither failed nor ended,
\* is the run on a sequence that goes on to Running+ready: it may leave
\* the watch loop only through LOG_ELIGIBLE with its one call made.
C3_RunningReadyOpensOneHandle ==
    /\ calls <= 1
    /\ (WatchLeft /\ ~seen_ftd /\ log_stream_end = None)
          => state = "LOG_ELIGIBLE" /\ calls = 1
    /\ (Evaluated /\ ~seen_ftd /\ RunningReady(Get(event)))
          => state = "LOG_ELIGIBLE" /\ calls = 1

\* C4: an evaluated snapshot with phase=Failed or a terminated container
\* state takes log() to FAILED: the terminated reason and message are
\* logged, one read_namespaced_pod_log call is made and no exception
\* leaves log().  The snapshots the state machine sends elsewhere before
\* it looks at failures (Pending, Succeeded, Running and ready) are left
\* out of the statement.
C4_FailedSurfacesAndOpens ==
    (/\ Evaluated
     /\ Get(event).phase = "Failed" \/ HasTerminated(Get(event))
     /\ Get(event).phase \notin {"Pending", "Succeeded"}
     /\ ~RunningReady(Get(event)))
        => /\ state = "FAILED"
           /\ calls = 1
           /\ raised = None
           /\ HasTerminated(Get(event)) =>
                 diagnostic = Some(
                   [name |-> Get(event).name,
                    reason |-> Get(Status0(Get(event).container_statuses)
                                     .state.terminated).reason,
                    message |-> Get(Status0(Get(event).container_statuses)
                                      .state.terminated).message])

C6_DeletedOrWaitingFails ==
    (/\ Evaluated
     /\ Get(event).type = "DELETED" \/ HasWaiting(Get(event)))
        => /\ state = "FAILED"
           /\ diagnostic # None
           /\ calls = 1
           /\ log_pc = "after_watch"
           /\ raised = None

\* C7: log() obtains no LogHandle, and makes no read_namespaced_pod_log
\* call, while every pod snapshot pulled so far is Pending, or Running with
\* container[0] not ready and in the running state; a Pending snapshot
\* leaves the machine in WAITING with the watch going on.
C7_NoHandleWhileWaiting ==
    /\ (log_pc # "idle" /\ waiting_seen = pulled)
          => tail = None /\ opens = 0 /\ calls = 0 /\ reads = 0
    /\ (Evaluated /\ Get(event).phase = "Pending")
          => /\ state = "WAITING"
             /\ raised = None
             /\ log_pc = "watch" \/ log_stream_end # None

\* Three waiting snapshots, of which the third is Running and not ready,
\* then Running and ready: the handle is obtained at the fourth event.
C7_Witness ==
    /\ pulled = 4
    /\ waiting_seen = 3
    /\ log_pc = "after_watch"
    /\ RunningReady(Get(event))
    /\ opens = 1

\* C8: evaluating a snapshot whose container-status list is absent or
\* empty raises nothing, whatever its phase and event type, and the
\* transition is the one of the phase and the event type: Pending stays in
\* WAITING, Succeeded goes to LOG_ELIGIBLE, Failed or DELETED goes to
\* FAILED, anything else stays in WAITING.
C8_AbsentStatusesTolerated ==
    (Evaluated /\ Subscript0(Get(event).container_statuses) # "ok")
        => /\ raised = None
           /\ Get(event).phase = "Pending"
                 => state = "WAITING" /\ calls = 0
           /\ Get(event).phase = "Succeeded"
                 => state = "LOG_ELIGIBLE" /\ calls = 1
           /\ (Get(event).phase \in {"Running", "Failed", "Unknown"}
                 /\ (Get(event).phase = "Failed" \/ Get(event).type = "DELETED"))
                 => state = "FAILED" /\ calls = 1
           /\ (Get(event).phase \in {"Running", "Unknown"}
                 /\ Get(event).type # "DELETED")
                 => state = "WAITING" /\ calls = 0 /\ log_pc = "watch"

\* C9: when the event stream raises ValueError or ApiException, the
\* exception is handled in the call and logged with the name argument; it
\* does not leave the call; get_service_external_endpoint returns no URL
\* and log() prints nothing.
C9_StreamErrorsCaught ==
    /\ (svc_stream_end # None /\ Get(svc_stream_end) \in StreamErrors)
          => /\ svc_pc = "returned"
             /\ url = None
             /\ svc_logged = Some([name |-> arg_name,
                                   error |-> Get(svc_stream_end)])
    /\ (log_stream_end # None /\ Get(log_stream_end) \in StreamErrors)
          => /\ log_pc \in {"after_watch", "done"}
             /\ raised = None
             /\ printed = <<>>
             /\ log_logged = Some([name |-> arg_name,
                                   error |-> Get(log_stream_end)])

\* The pod stream raises ApiException after two events: log() ends.
C9_Witness ==
    /\ log_stream_end = Some("ApiException")
    /\ pulled = 2
    /\ log_pc = "done"
    /\ raised = None

\* C10: a run of log() that has obtained no LogHandle has printed nothing,
\* read no chunk and released nothing, and is not in the chunk loop.
C10_NoHandleNoOutput ==
    (log_pc # "idle" /\ opens = 0)
        => /\ printed = <<>>
           /\ reads = 0
           /\ releases = 0
           /\ log_pc # "stream"

\* The API rejects the read_namespaced_pod_log call: the run ends without
\* a handle.
C10_Witness ==
    /\ log_pc = "done"
    /\ calls = 1
    /\ opens = 0
    /\ log_stream_end = None

\* C12: once log() holds a LogHandle, obtained in LOG_ELIGIBLE or in
\* FAILED, it is out of the pod watch loop, where alone events are pulled;
\* chunks are read only after the watch loop has been left.
C12_NoEventAfterHandle ==
    /\ tail # None => log_pc \in {"after_watch", "stream", "done", "raised"}
    /\ opens > 0 => log_pc # "watch"
    /\ reads > 0 => log_pc \in {"stream", "done", "raised"} /\ event = None

\* A handle obtained in FAILED after a Pending event; one chunk read.
C12_Witness ==
    /\ state = "FAILED"
    /\ pulled = 2
    /\ tail # None
    /\ log_pc = "stream"
    /\ reads = 1

\* C13: an evaluated snapshot that is not Pending, not Running with
\* container[0] ready, not Succeeded, not a DELETED event, not Failed, and
\* that reports no waiting and no terminated container state, leaves the
\* machine in WAITING: no read_namespaced_pod_log call, no exception, and
\* the watch goes on to the next event.
C13_OtherSnapshotsKeepWaiting ==
    (/\ Evaluated
     /\ Get(event).phase \notin {"Pending", "Succeeded", "Failed"}
     /\ ~RunningReady(Get(event))
     /\ Get(event).type # "DELETED"
     /\ ~HasWaiting(Get(event))
     /\ ~HasTerminated(Get(event)))
        => /\ state = "WAITING"
           /\ calls = 0
           /\ tail = None
           /\ raised = None
           /\ log_pc = "watch" \/ log_stream_end # None

\* C14: every chunk is read when all chunks read before it have been
\* delivered, is at most MAX_STREAM_BYTES long, and its text (the chunk
\* without trailing whitespace, decoded) is put after the texts delivered
\* before; nothing is delivered by a step that reads no chunk; no chunk is
\* read or delivered once the handle has been released.
C14_ChunksRelayedInOrder ==
    [][/\ reads' = reads + 1 =>
             /\ chunk' # None
             /\ Len(Get(chunk')) <= 1024
             /\ Len(printed) = reads
             /\ releases = 0
             /\ Decodable(Rstrip(Get(chunk'))) =>
                   printed' = printed \o <<Decode(Rstrip(Get(chunk')))>>
             /\ ~Decodable(Rstrip(Get(chunk'))) => printed' = printed
       /\ reads' # reads + 1 => reads' = reads /\ printed' = printed
       /\ releases > 0 => reads' = reads /\ printed' = printed
       /\ releases' # releases => printed' = printed]_vars

\* Two chunks with different texts were delivered, then the handle was
\* released.
C14_Witness ==
    /\ log_pc = "done"
    /\ Len(printed) = 2
    /\ printed[1] # printed[2]
    /\ releases = 1

\* C16 as claimed: a LogHandle log() obtains is the one of the pod called
\* by the name argument, in the namespace and for the container passed,
\* with the follow mode passed.
C16_HandleForNameArgument ==
    tail # None =>
        Get(tail) = [name |-> arg_name, namespace |-> arg_namespace,
                     follow |-> follow, container |-> container]

\* C16 as amended: a LogHandle log() obtains is the one of the pod of the
\* snapshot that triggered the transition (pod.metadata.name), in the
\* namespace and for the container passed, with the follow mode passed.
C16_HandleForTriggeringPod ==
    tail # None =>
        /\ Get(tail).namespace = arg_namespace
        /\ Get(tail).container = container
        /\ Get(tail).follow = follow
        /\ Get(tail).name \in PodNames
        /\ event # None => Get(tail).name = Get(event).name

\* The selector matches a pod that is not called by the name argument; its
\* snapshot triggers the transition, in a call with follow=False.
C16_Witness ==
    /\ log_pc = "after_watch"
    /\ tail # None
    /\ Get(event).name # arg_name
    /\ Get(tail).name = Get(event).name
    /\ ~follow

\* C17: when the pod event stream comes to a triggering snapshot, fails
\* or ends, and the log byte stream ends, every run of log() comes to its
\* end, by return or by an exception, with as many releases as handles
\* obtained and a finite sequence of printed texts.
C17_LogTerminates ==
    (log_pc = "watch")
        ~> (/\ log_pc \in {"done", "raised"}
            /\ releases = opens
            /\ Len(printed) <= reads)

\* A run that obtained its handle at the third event, in LOG_ELIGIBLE, has
\* returned with the handle released.
C17_Witness ==
    /\ log_pc = "done"
    /\ state = "LOG_ELIGIBLE"
    /\ pulled = 3
    /\ opens = 1
    /\ releases = 1

\* C19: in every state of a run of log(), whatever the pod events were, at
\* most one LogHandle has been obtained, by at most one
\* read_namespaced_pod_log call, and at most one handle is obtained and not
\* yet released.
C19_AtMostOneHandle ==
    /\ calls \in {0, 1}
    /\ opens \in {0, 1}
    /\ opens <= calls
    /\ opens - releases \in {0, 1}
    /\ opens = 0 <=> tail = None

\* The second event of the watch, of another pod than the first and after
\* a DELETED event, gave the one handle, which is not released yet.
C19_Witness ==
    /\ log_pc = "after_watch"
    /\ pulled = 2
    /\ seen_ftd
    /\ Get(event).name = "p2"
    /\ opens = 1
    /\ releases = 0

(* ---------------------------------------------------------------------- *)
(* Properties of the two calls side by side                                *)
(* ---------------------------------------------------------------------- *)
\* C18: when get_service_external_endpoint and log() run at the same time,
\* in every interleaving of their steps each call pulls the events of its
\* own stream in the order of arrival (the k-th event it handles is the
\* k-th of its stream, and so for the chunks of the log), and each call
\* ends as it ends alone on that stream: the same URL or none, the same
\* handle obtained and released, the same lines printed, the same
\* exception.
C18_RunsIndependent ==
    /\ svc_event # None => Get(svc_event) = sources.svc.events[svc_pulled]
    /\ event # None => Get(event) = sources.pod.events[pulled]
    /\ chunk # None => Get(chunk) = sources.bytes.chunks[reads]
    /\ svc_pc \in {"returned", "raised"}
          => [url |-> url, pc |-> svc_pc] = SvcRun(sources.svc.events, sources.svc.end)
    /\ log_pc \in {"done", "raised"}
          => [tail |-> tail, opens |-> opens, releases |-> releases,
              printed |-> printed, raised |-> raised] = LogRun(sources)

\* Both calls have ended, after steps of the other one: the service watch
\* returned a URL on its third event, log() obtained the handle of its
\* second event, printed two lines and released the handle.
C18_Witness ==
    /\ svc_pc = "returned"
    /\ svc_pulled = 3
    /\ url # None
    /\ log_pc = "done"
    /\ pulled = 2
    /\ tail # None
    /\ Get(tail).name = "p2"
    /\ Len(printed) = 2
    /\ releases = 1

(* ---------------------------------------------------------------------- *)
(* Properties of create_tf_job and create_kfserving                        *)
(* ---------------------------------------------------------------------- *)
\* C11: when the API rejects the creation of a custom resource, the method
\* raises RuntimeError with a message that names the version of the CRD of
\* that method, never the ApiException itself; when the API accepts, the
\* method returns the created object unchanged.
C11_CrdFailureReclassified ==
    /\ crd_response = Some(Rejection)
          => /\ crd_pc = "raised"
             /\ crd_result = None
             /\ Get(crd_raised).class = "RuntimeError"
             /\ crd_method = "create_tf_job" =>
                   Get(crd_raised).message =
                     "Failed to create TFJob. Perhaps the CRD TFJob version <TF_JOB_VERSION> in not installed?"
             /\ crd_method = "create_kfserving" =>
                   Get(crd_raised).message =
                     "Failed to create KFService. Perhaps the CRD KFServing version <KFSERVING_VERSION> is not installed?"
    /\ (crd_response # None /\ crd_response # Some(Rejection))
          => /\ crd_pc = "returned"
             /\ crd_result = crd_response
             /\ crd_raised = None

\* The API rejects the creation of a TFJob.
C11_Witness ==
    /\ crd_method = "create_tf_job"
    /\ crd_response = Some(Rejection)
    /\ crd_pc = "raised"

====
